---- MODULE Spec2Model ----
(***************************************************************************)
(* A model of pdf2docx/text/Line.py: the Line of a text block, its         *)
(* write-once parent id, its direction classification, clipping,           *)
(* serialisation and the emission of its spans as docx runs.               *)
(*                                                                         *)
(* Python objects live in heaps: `lines` is the sequence of Line objects   *)
(* created so far (the index is the object's identity), `dirs` the list    *)
(* objects that hold direction vectors (a Line refers to one by index).    *)
(* Texts are sequences of one-character strings.  Geometry is the          *)
(* projection of the boxes on the x axis of the line.                      *)
(***************************************************************************)
EXTENDS Integers, Sequences, FiniteSets, TLC

VARIABLES lines, dirs, rotation, result, sink

vars == <<lines, dirs, rotation, result, sink>>

-----------------------------------------------------------------------------
(* Bounds of the model.                                                    *)

MaxLines == 2

MaxSpans == 2

MaxTextLen == 4

MaxCoord == 2

MaxX == 4

-----------------------------------------------------------------------------
(* Python values.                                                          *)

\* None, and an optional integer holding n.
None == <<>>

Some(n) == <<n>>

\* The values a caller may hand to the pid setter.  A float is num/den.
PyNone == [t |-> "NoneType", num |-> 0, den |-> 1, s |-> <<>>]

PyInt(n) == [t |-> "int", num |-> n, den |-> 1, s |-> <<>>]

PyFloat(n, d) == [t |-> "float", num |-> n, den |-> d, s |-> <<>>]

PyStr(chars) == [t |-> "str", num |-> 0, den |-> 1, s |-> chars]

Max(a, b) == IF a >= b THEN a ELSE b

Min(a, b) == IF a <= b THEN a ELSE b

-----------------------------------------------------------------------------
(* Text: str.strip, str.split(' '), ' '.join and slices.                   *)

Whitespace == {" ", "\t", "\n"}

RECURSIVE LStrip(_)
LStrip(t) ==
    IF t # <<>> /\ Head(t) \in Whitespace THEN LStrip(Tail(t)) ELSE t

RECURSIVE RStrip(_)
RStrip(t) ==
    IF t # <<>> /\ t[Len(t)] \in Whitespace
    THEN RStrip(SubSeq(t, 1, Len(t) - 1))
    ELSE t

\* str.strip()
Strip(t) == RStrip(LStrip(t))

\* str.split(' '): every single space separates, empty words are kept.
RECURSIVE Split(_)
Split(t) ==
    IF \A k \in 1..Len(t) : t[k] # " "
    THEN <<t>>
    ELSE LET k == CHOOSE i \in 1..Len(t) :
                      t[i] = " " /\ \A j \in 1..(i - 1) : t[j] # " "
         IN  <<SubSeq(t, 1, k - 1)>> \o Split(SubSeq(t, k + 1, Len(t)))

\* ' '.join(words)
RECURSIVE Join(_)
Join(words) ==
    IF words = <<>> THEN <<>>
    ELSE IF Len(words) = 1 THEN words[1]
    ELSE words[1] \o <<" ">> \o Join(Tail(words))

\* seq[-n:] and seq[:-n] for n >= 0 (Python reads -0 as 0).
SliceLast(s, n) ==
    IF n = 0 THEN s ELSE SubSeq(s, Max(Len(s) - n, 0) + 1, Len(s))

SliceButLast(s, n) ==
    IF n = 0 THEN <<>> ELSE SubSeq(s, 1, Max(Len(s) - n, 0))

-----------------------------------------------------------------------------
(* Spans (TextSpan, ImageSpan) and the paragraph that receives the runs.   *)

\* ImageSpan.text
ImagePlaceholder == <<"<image>">>

IsTextSpan(span) == span.kind = "text"

\* span.store(): the raw dict of a span (chars are not stored).
SpanStore(span) ==
    [kind |-> span.kind, text |-> span.text,
     condense_spacing |-> span.condense_spacing,
     x0 |-> span.x0, x1 |-> span.x1]

\* TextSpan(raw) / ImageSpan(raw): a new span object, owned by Line `id`.
SpanRestore(raw, id) ==
    [kind |-> raw.kind, text |-> raw.text,
     condense_spacing |-> raw.condense_spacing,
     x0 |-> raw.x0, x1 |-> raw.x1, owner |-> id]

\* Spans(parent).restore(raws)
SpansRestore(raws, id) == [k \in 1..Len(raws) |-> SpanRestore(raws[k], id)]

\* p.add_run().add_tab()
TabRun == [kind |-> "tab", text |-> <<"\t">>, condense_spacing |-> 0,
           span |-> 0, var |-> ""]

\* p.add_run('\n')
BreakRun == [kind |-> "break", text |-> <<"\n">>, condense_spacing |-> 0,
             span |-> 0, var |-> ""]

\* span.make_docx(p): one run, the text of a TextSpan at its spacing or the
\* picture of an ImageSpan.  `i` is the span's place in the Line and `var`
\* the variable of Line.make_docx that holds the emitted span.
SpanMakeDocx(span, i, var) ==
    [kind |-> span.kind,
     text |-> IF IsTextSpan(span) THEN span.text ELSE <<>>,
     condense_spacing |-> IF IsTextSpan(span) THEN span.condense_spacing ELSE 0,
     span |-> i, var |-> var]

-----------------------------------------------------------------------------
(* Line.make_docx                                                          *)

\* last_2_words = ' '.join(span.text.strip().split(' ')[-2:])
Last2Words(text) == Join(SliceLast(Split(Strip(text)), 2))

\* num = len(last_2_words)+1
Num(text) == Len(Last2Words(text)) + 1

\* A head that ends one character early.
HeadTextDropsOne(text) == SliceButLast(text, Num(text) + 1)

\* span.text[:-num]
HeadText(text) == SliceButLast(text, Num(text))

\* span.text[-num:]
TailText(text) == SliceLast(text, Num(text))

\* A head that keeps the spacing of the span.
Span1CondenseKept(span) == span.condense_spacing

\* span_1.condense_spacing = 0.0
Span1Condense(span) == 0

\* span_2 = TextSpan(raw): the stored spacing of the span
Span2Condense(span) == span.condense_spacing

\* the else branch: span_1 and span_2, each emitted if its text is not empty
SplitRuns(span, i) ==
    LET span_1 == [span EXCEPT !.text = HeadText(span.text),
                               !.condense_spacing = Span1Condense(span)]
        span_2 == [span EXCEPT !.text = TailText(span.text),
                               !.condense_spacing = Span2Condense(span)]
    IN  (IF span_1.text # <<>>
         THEN <<SpanMakeDocx(span_1, i, "span_1")>> ELSE <<>>)
        \o
        (IF span_2.text # <<>>
         THEN <<SpanMakeDocx(span_2, i, "span_2")>> ELSE <<>>)

\* the body of the loop over self.spans
SpanRuns(span, i) ==
    IF ~IsTextSpan(span) \/ span.condense_spacing = 0
    THEN <<SpanMakeDocx(span, i, "span")>>
    ELSE SplitRuns(span, i)

RECURSIVE SpansRuns(_, _)
SpansRuns(spans, i) ==
    IF i > Len(spans) THEN <<>>
    ELSE SpanRuns(spans[i], i) \o SpansRuns(spans, i + 1)

\* An emission that breaks the line before its content.
BreakFirstRuns(line) ==
    (IF line.line_break # 0 THEN <<BreakRun>> ELSE <<>>)
    \o (IF line.tab_stop # 0 THEN <<TabRun>> ELSE <<>>)
    \o SpansRuns(line.spans, 1)

\* the runs that make_docx appends to p, in order
MakeDocxRuns(line) ==
    (IF line.tab_stop # 0 THEN <<TabRun>> ELSE <<>>)
    \o SpansRuns(line.spans, 1)
    \o (IF line.line_break # 0 THEN <<BreakRun>> ELSE <<>>)

-----------------------------------------------------------------------------
(* Geometry: fitz.Point, fitz.Matrix, fitz.Rect and Element.bbox.          *)

Rotations == {0, 90, 180, 270}

\* Element.pure_rotation_matrix(): (a, b, c, d) of the page's rotation.
PureRotationMatrix ==
    CASE rotation = 0   -> <<1, 0, 0, 1>>
      [] rotation = 90  -> <<0, 1, -1, 0>>
      [] rotation = 180 -> <<-1, 0, 0, -1>>
      [] rotation = 270 -> <<0, -1, 1, 0>>

\* Point * Matrix
PointTimesMatrix(p, m) ==
    <<p[1] * m[1] + p[2] * m[3], p[1] * m[2] + p[2] * m[4]>>

\* Element.bbox of a Line: the union of the boxes of its spans, and Rect(),
\* the empty rectangle at the origin, if it has none.
BBox(spans) ==
    IF spans = <<>> THEN <<0, 0>>
    ELSE LET x0s == {spans[k].x0 : k \in 1..Len(spans)}
             x1s == {spans[k].x1 : k \in 1..Len(spans)}
         IN  <<CHOOSE a \in x0s : \A b \in x0s : a <= b,
               CHOOSE a \in x1s : \A b \in x1s : a >= b>>

\* rect.contains(bbox)
Contains(rect, bbox) == rect[1] <= bbox[1] /\ bbox[2] <= rect[2]

\* the two boxes share some area
Overlaps(rect, bbox) == rect[1] < bbox[2] /\ bbox[1] < rect[2]

\* TextSpan() / ImageSpan(): the empty span, which is false as a bool
EmptySpan(kind, id) ==
    [kind |-> kind, text |-> <<>>, condense_spacing |-> 0,
     x0 |-> 0, x1 |-> 0, owner |-> id]

IsEmptySpan(span) == span.x0 = span.x1

\* span.intersects(rect): a copy if contained, the empty span if disjoint,
\* else the chars of a TextSpan that lie in rect (char k of the text fills
\* [x0+k-1, x0+k]) or the whole ImageSpan.  The result is a new object.
SpanIntersects(span, rect, id) ==
    IF Contains(rect, <<span.x0, span.x1>>)
    THEN [span EXCEPT !.owner = id]
    ELSE IF ~Overlaps(rect, <<span.x0, span.x1>>)
    THEN EmptySpan(span.kind, id)
    ELSE IF ~IsTextSpan(span)
    THEN [span EXCEPT !.owner = id]
    ELSE LET lo == Max(rect[1], span.x0) - span.x0 + 1
             hi == Min(rect[2], span.x1) - span.x0
         IN  [span EXCEPT !.text = SubSeq(span.text, lo, hi),
                          !.x0 = span.x0 + lo - 1,
                          !.x1 = span.x0 + hi,
                          !.owner = id]

\* Spans.append(e): an empty element is not added
SpansAppend(spans, e) == IF IsEmptySpan(e) THEN spans ELSE Append(spans, e)

-----------------------------------------------------------------------------
(* Line: construction, properties, pid.                                    *)

\* raw.get(key, default)
Get(raw, key, default) == IF key \in DOMAIN raw THEN raw[key] ELSE default

\* the list assigned to self.dir by __init__
DirInit(raw) ==
    IF "dir" \in DOMAIN raw
    THEN PointTimesMatrix(raw["dir"], PureRotationMatrix)
    ELSE <<1, 0>>

\* Line(raw): the fields of the new object `id`; its dir is the list `id`.
LineInit(raw, id) ==
    [wmode      |-> Get(raw, "wmode", 0),
     dir        |-> id,
     line_break |-> Get(raw, "line_break", 0),
     tab_stop   |-> Get(raw, "tab_stop", 0),
     pid        |-> None,
     spans      |-> SpansRestore(Get(raw, "spans", <<>>), id)]

\* the vector held by the list that line.dir refers to
DirOf(line) == dirs[line.dir]

\* Line.raw_text
RECURSIVE RawTextFrom(_, _)
RawTextFrom(spans, i) ==
    IF i > Len(spans) THEN <<>>
    ELSE (IF IsTextSpan(spans[i]) THEN spans[i].text ELSE <<>>)
         \o RawTextFrom(spans, i + 1)

RawText(line) == RawTextFrom(line.spans, 1)

\* A classification that looks at the second component first.
TextDirectionSecondFirst(d) ==
    IF d[2] = -1 THEN "BOTTOM_TOP"
    ELSE IF d[1] = 1 THEN "LEFT_RIGHT"
    ELSE "IGNORE"

\* Line.text_direction
TextDirection(d) ==
    IF d[1] = 1 THEN "LEFT_RIGHT"
    ELSE IF d[2] = -1 THEN "BOTTOM_TOP"
    ELSE "IGNORE"

\* int(x) of Python: [status, val]
DigitValue(c) ==
    CASE c = "0" -> 0 [] c = "1" -> 1 [] c = "2" -> 2 [] c = "3" -> 3
      [] c = "4" -> 4 [] c = "5" -> 5 [] c = "6" -> 6 [] c = "7" -> 7
      [] c = "8" -> 8 [] c = "9" -> 9 [] OTHER -> -1

RECURSIVE DigitsValue(_, _)
DigitsValue(t, acc) ==
    IF t = <<>> THEN acc ELSE DigitsValue(Tail(t), 10 * acc + DigitValue(Head(t)))

IntOfStr(chars) ==
    LET t      == Strip(chars)
        signed == t # <<>> /\ Head(t) \in {"+", "-"}
        digits == IF signed THEN Tail(t) ELSE t
    IN  IF digits # <<>> /\ \A k \in 1..Len(digits) : DigitValue(digits[k]) >= 0
        THEN [status |-> "ok",
              val |-> IF signed /\ Head(t) = "-"
                      THEN 0 - DigitsValue(digits, 0)
                      ELSE DigitsValue(digits, 0)]
        ELSE [status |-> "ValueError", val |-> 0]

IntOf(v) ==
    CASE v.t = "int"      -> [status |-> "ok", val |-> v.num]
      [] v.t = "float"    -> [status |-> "ok",
                              val |-> IF v.num >= 0 THEN v.num \div v.den
                                      ELSE 0 - ((0 - v.num) \div v.den)]
      [] v.t = "str"      -> IntOfStr(v.s)
      [] v.t = "NoneType" -> [status |-> "TypeError", val |-> 0]

\* the value of self.pid as the Python object handed on by intersects
PyOf(pid) == IF pid = None THEN PyNone ELSE PyInt(pid[1])

\* A setter that assigns whatever is there already.
PidSetterOverwrites(line, v) ==
    LET r == IntOf(v)
    IN  IF r.status = "ok"
        THEN [line |-> [line EXCEPT !.pid = Some(r.val)], status |-> "ok"]
        ELSE [line |-> line, status |-> r.status]

\* A setter that coerces before it looks at the identifier.
PidSetterCoercesFirst(line, v) ==
    LET r == IntOf(v)
    IN  IF r.status # "ok" THEN [line |-> line, status |-> r.status]
        ELSE IF line.pid = None
        THEN [line |-> [line EXCEPT !.pid = Some(r.val)], status |-> "ok"]
        ELSE [line |-> line, status |-> "ok"]

\* Line.pid setter: [line, status], status the exception raised if any
PidSetter(line, v) ==
    IF line.pid = None
    THEN LET r == IntOf(v)
         IN  IF r.status = "ok"
             THEN [line |-> [line EXCEPT !.pid = Some(r.val)], status |-> "ok"]
             ELSE [line |-> line, status |-> r.status]
    ELSE [line |-> line, status |-> "ok"]

\* A comparison that lets two unset identifiers match.
SameSourceParentPlainEquality(self, line) == self.pid = line.pid

\* Line.same_source_parent
SameSourceParent(self, line) ==
    IF self.pid = None THEN FALSE ELSE self.pid = line.pid

\* Line.store(): Element.store() gives the bbox, Line adds its own keys
Store(line) ==
    [bbox       |-> BBox(line.spans),
     wmode      |-> line.wmode,
     dir        |-> DirOf(line),
     line_break |-> line.line_break,
     tab_stop   |-> line.tab_stop,
     spans      |-> [k \in 1..Len(line.spans) |-> SpanStore(line.spans[k])]]

\* Line.add(span) for one span, which is add_span: self.spans.append(span)
LineAdd(spans, span) == SpansAppend(spans, span)

\* the loop of intersects: line.add(span.intersects(rect)) for each span
RECURSIVE ClipInto(_, _, _, _)
ClipInto(acc, spans, rect, id) ==
    IF spans = <<>> THEN acc
    ELSE ClipInto(LineAdd(acc, SpanIntersects(Head(spans), rect, id)),
                  Tail(spans), rect, id)

-----------------------------------------------------------------------------
(* The operations of Line as steps.  `result` describes the last call: the *)
(* operation, the exception it raised ("ok" if none), the Lines involved,  *)
(* its arguments and what it returned.                                     *)

Idle ==
    [op |-> "", status |-> "ok", self |-> 0, other |-> 0, new |-> 0,
     arg |-> PyNone, rect |-> <<0, 0>>, ret |-> ""]

Init ==
    /\ lines = <<>>
    /\ dirs = <<>>
    /\ rotation \in Rotations
    /\ result = Idle
    /\ sink = <<>>

\* line = Line(raw)
Construct(raw) ==
    /\ Len(lines) < MaxLines
    /\ LET id == Len(lines) + 1
       IN  /\ lines' = Append(lines, LineInit(raw, id))
           /\ dirs' = Append(dirs, DirInit(raw))
           /\ result' = [Idle EXCEPT !.op = "Line", !.new = id]
    /\ UNCHANGED <<rotation, sink>>

\* line.pid = v
SetPid(l, v) ==
    /\ l \in DOMAIN lines
    /\ LET r == PidSetter(lines[l], v)
       IN  /\ lines' = [lines EXCEPT ![l] = r.line]
           /\ result' = [Idle EXCEPT !.op = "pid.setter", !.status = r.status,
                                     !.self = l, !.arg = v]
    /\ UNCHANGED <<dirs, rotation, sink>>

\* self.same_source_parent(line)
CallSameSourceParent(l, m) ==
    /\ l \in DOMAIN lines
    /\ m \in DOMAIN lines
    /\ result' = [Idle EXCEPT !.op = "same_source_parent", !.self = l,
                              !.other = m,
                              !.ret = IF SameSourceParent(lines[l], lines[m])
                                      THEN "True" ELSE "False"]
    /\ UNCHANGED <<lines, dirs, rotation, sink>>

\* self.text_direction
CallTextDirection(l) ==
    /\ l \in DOMAIN lines
    /\ result' = [Idle EXCEPT !.op = "text_direction", !.self = l,
                              !.ret = TextDirection(DirOf(lines[l]))]
    /\ UNCHANGED <<lines, dirs, rotation, sink>>

\* the fast path of intersects: return self.copy(), a deep copy
IntersectsCopy(l, rect) ==
    LET self == lines[l]
        id   == Len(lines) + 1
    IN  /\ Contains(rect, BBox(self.spans))
        /\ lines' = Append(lines,
               [self EXCEPT !.dir = id,
                            !.spans = [k \in 1..Len(self.spans) |->
                                          [self.spans[k] EXCEPT !.owner = id]]])
        /\ dirs' = Append(dirs, DirOf(self))
        /\ result' = [Idle EXCEPT !.op = "intersects", !.self = l,
                                  !.new = id, !.rect = rect]

\* the other path: a new Line that takes wmode, dir and pid, then the
\* clipped spans.  The setter raises before any span is added.
IntersectsClip(l, rect) ==
    LET self == lines[l]
        id   == Len(lines) + 1
        line == [LineInit([wmode |-> self.wmode], id) EXCEPT !.dir = self.dir]
        r    == PidSetter(line, PyOf(self.pid))
    IN  /\ ~Contains(rect, BBox(self.spans))
        /\ IF r.status = "ok"
           THEN /\ lines' = Append(lines,
                       [r.line EXCEPT
                           !.spans = ClipInto(<<>>, self.spans, rect, id)])
                /\ dirs' = Append(dirs, <<1, 0>>)
                /\ result' = [Idle EXCEPT !.op = "intersects", !.self = l,
                                          !.new = id, !.rect = rect]
           ELSE /\ UNCHANGED <<lines, dirs>>
                /\ result' = [Idle EXCEPT !.op = "intersects",
                                          !.status = r.status, !.self = l,
                                          !.rect = rect]

\* line = self.intersects(rect)
Intersects(l, rect) ==
    /\ l \in DOMAIN lines
    /\ Len(lines) < MaxLines
    /\ IntersectsCopy(l, rect) \/ IntersectsClip(l, rect)
    /\ UNCHANGED <<rotation, sink>>

\* line = Line(self.store())
StoreRestore(l) ==
    /\ l \in DOMAIN lines
    /\ Len(lines) < MaxLines
    /\ LET id  == Len(lines) + 1
           raw == Store(lines[l])
       IN  /\ lines' = Append(lines, LineInit(raw, id))
           /\ dirs' = Append(dirs, DirInit(raw))
           /\ result' = [Idle EXCEPT !.op = "store/Line", !.self = l,
                                     !.new = id]
    /\ UNCHANGED <<rotation, sink>>

\* self.make_docx(p), p a paragraph without runs
MakeDocx(l) ==
    /\ l \in DOMAIN lines
    /\ sink' = MakeDocxRuns(lines[l])
    /\ result' = [Idle EXCEPT !.op = "make_docx", !.self = l]
    /\ UNCHANGED <<lines, dirs, rotation>>

-----------------------------------------------------------------------------
(* Inputs.                                                                 *)

TextSpanRaw(text, condense, x0) ==
    [kind |-> "text", text |-> text, condense_spacing |-> condense,
     x0 |-> x0, x1 |-> x0 + Len(text)]

ImageSpanRaw(x0, x1) ==
    [kind |-> "image", text |-> ImagePlaceholder, condense_spacing |-> 0,
     x0 |-> x0, x1 |-> x1]

\* raw dicts of lines: one without any key, and a vertical row with a
\* condensed text, a gap and an image
Raws ==
    { [spans |-> <<>>],
      [wmode |-> 1, dir |-> <<1, 0>>, line_break |-> 1, tab_stop |-> 1,
       spans |-> <<TextSpanRaw(<<"a", "b">>, 5, 0), ImageSpanRaw(3, 4)>>] }

PidValues ==
    { PyInt(7), PyStr(<<"3">>), PyFloat(37, 10), PyStr(<<"x">>), PyNone }

Rects == {<<a, b>> : a \in 0..MaxX, b \in 0..MaxX} \cap
         {r \in (0..MaxX) \X (0..MaxX) : r[1] < r[2]}

Next ==
    \/ \E raw \in Raws : Construct(raw)
    \/ \E l \in 1..MaxLines, v \in PidValues : SetPid(l, v)
    \/ \E l \in 1..MaxLines, m \in 1..MaxLines : CallSameSourceParent(l, m)
    \/ \E l \in 1..MaxLines, rect \in Rects : Intersects(l, rect)
    \/ \E l \in 1..MaxLines : StoreRestore(l)

Spec == Init /\ [][Next]_vars

-----------------------------------------------------------------------------
(* Emission of one Line: every Line over a few spans, and every Line of    *)
(* one text span over all short texts.                                     *)

Chars == {"a", "b", " "}

RECURSIVE TextsOfLen(_)
TextsOfLen(n) ==
    IF n = 0 THEN {<<>>}
    ELSE {Append(t, c) : t \in TextsOfLen(n - 1), c \in Chars}

Texts == UNION {TextsOfLen(n) : n \in 0..MaxTextLen}

HelloWorldFoo ==
    <<"H", "e", "l", "l", "o", " ", "w", "o", "r", "l", "d", " ", "f", "o", "o">>

Spacings == {0, 5}

SplitRaws ==
    {[spans |-> <<TextSpanRaw(t, c, 0)>>] :
        t \in Texts \cup {HelloWorldFoo}, c \in Spacings}

EmitSpans ==
    { TextSpanRaw(<<"a", " ", "b", " ", "c">>, 5, 0),
      TextSpanRaw(<<"a">>, 5, 0),
      TextSpanRaw(<<>>, 5, 0),
      TextSpanRaw(<<"a", " ", "b">>, 0, 0),
      ImageSpanRaw(0, 1) }

RECURSIVE SpanListsOfLen(_)
SpanListsOfLen(n) ==
    IF n = 0 THEN {<<>>}
    ELSE {Append(ss, e) : ss \in SpanListsOfLen(n - 1), e \in EmitSpans}

OrderRaws ==
    {[line_break |-> b, tab_stop |-> t, spans |-> ss] :
        b \in {0, 1}, t \in {0, 1},
        ss \in UNION {SpanListsOfLen(n) : n \in 0..MaxSpans}}

InitEmit ==
    /\ rotation = 0
    /\ \E raw \in SplitRaws \cup OrderRaws :
          /\ lines = <<LineInit(raw, 1)>>
          /\ dirs = <<DirInit(raw)>>
    /\ result = [Idle EXCEPT !.op = "Line", !.new = 1]
    /\ sink = <<>>

NextEmit == \E l \in DOMAIN lines : MakeDocx(l)

SpecEmit == InitEmit /\ [][NextEmit]_vars

-----------------------------------------------------------------------------
(* Classification of the direction of one Line, over every small vector    *)
(* and every rotation of the page.                                         *)

Vectors == (-MaxCoord..MaxCoord) \X (-MaxCoord..MaxCoord)

DirRaws == {[dir |-> d] : d \in Vectors} \cup {[spans |-> <<>>]}

InitDir ==
    /\ rotation \in Rotations
    /\ \E raw \in DirRaws :
          /\ lines = <<LineInit(raw, 1)>>
          /\ dirs = <<DirInit(raw)>>
    /\ result = [Idle EXCEPT !.op = "Line", !.new = 1]
    /\ sink = <<>>

NextDir == \E l \in DOMAIN lines : CallTextDirection(l)

SpecDir == InitDir /\ [][NextDir]_vars

-----------------------------------------------------------------------------
(* Properties.                                                             *)

Errors == {"TypeError", "ValueError"}

Coercible(v) == IntOf(v).status = "ok"

\* the runs of the sink that span i of the Line produced, in order
RunsOf(i) == SelectSeq(sink, LAMBDA r : r.span = i)

RECURSIVE ConcatTexts(_)
ConcatTexts(runs) ==
    IF runs = <<>> THEN <<>> ELSE Head(runs).text \o ConcatTexts(Tail(runs))

TextsOf(runs) == [k \in 1..Len(runs) |-> runs[k].text]

IsSplit(span) == IsTextSpan(span) /\ span.condense_spacing # 0

\* C1: a Line that Line(raw) has just made has no pid, and in every step a
\* pid that holds an integer is the same afterwards, whatever the operation
\* and whatever value a setter was given.
C1_WriteOncePid ==
    [][ /\ \A l \in DOMAIN lines :
              lines[l].pid # None =>
                  l \in DOMAIN lines' /\ lines'[l].pid = lines[l].pid
        /\ result'.op = "Line" => lines'[result'.new].pid = None ]_vars

\* C1 witness: the pid is 7 and a setter call with "3" has returned.
C1_SecondSetIgnored ==
    /\ result.op = "pid.setter"
    /\ result.arg = PyStr(<<"3">>)
    /\ result.status = "ok"
    /\ lines[result.self].pid = Some(7)

C3_DisjointClipIsEmpty ==
    (/\ result.op = "intersects"
     /\ lines[result.self].spans # <<>>
     /\ \A k \in 1..Len(lines[result.self].spans) :
           ~Overlaps(result.rect, <<lines[result.self].spans[k].x0,
                                    lines[result.self].spans[k].x1>>))
    => /\ result.status = "ok"
       /\ result.new \in DOMAIN lines
       /\ lines[result.new].spans = <<>>

\* C4 as stated: Line(x.store()) has the writing mode, direction, flags,
\* raw text and spans (number and order) of x, at every page rotation.
C4_RoundTrip ==
    result.op = "store/Line" =>
        LET x == lines[result.self]
            y == lines[result.new]
        IN  /\ y.wmode = x.wmode
            /\ DirOf(y) = DirOf(x)
            /\ y.line_break = x.line_break
            /\ y.tab_stop = x.tab_stop
            /\ RawText(y) = RawText(x)
            /\ Len(y.spans) = Len(x.spans)
            /\ \A k \in 1..Len(x.spans) :
                  SpanStore(y.spans[k]) = SpanStore(x.spans[k])

\* C5: for every condensed text span of the Line, head and tail text join
\* to the text of the span, and the runs it produced are the head if not
\* empty, then the tail if not empty: at most two, joining to the text.
\* "Hello world foo" gives "Hello" and " world foo".
C5_LosslessSplit ==
    result.op = "make_docx" =>
        \A i \in 1..Len(lines[result.self].spans) :
            LET span == lines[result.self].spans[i]
                t    == span.text
            IN  IsSplit(span) =>
                  /\ HeadText(t) \o TailText(t) = t
                  /\ TextsOf(RunsOf(i)) =
                        (IF HeadText(t) # <<>> THEN <<HeadText(t)>> ELSE <<>>)
                        \o (IF TailText(t) # <<>> THEN <<TailText(t)>> ELSE <<>>)
                  /\ Len(RunsOf(i)) <= 2
                  /\ ConcatTexts(RunsOf(i)) = t
                  /\ t = HelloWorldFoo =>
                        TextsOf(RunsOf(i)) =
                            <<SubSeq(HelloWorldFoo, 1, 5),
                              SubSeq(HelloWorldFoo, 6, 15)>>

\* C5 witness: "Hello world foo", condensed, has been emitted as two runs.
C5_HelloSplitInTwo ==
    /\ result.op = "make_docx"
    /\ Len(sink) = 2
    /\ lines[result.self].spans[1].text = HelloWorldFoo

\* C6: the sink holds a tab run iff tab_stop is set, and then first; a
\* break run iff line_break is set, and then last; between them the runs
\* of the spans, those of span i before those of span j when i < j, one
\* run for each span that is not split.
C6_EmissionOrder ==
    result.op = "make_docx" =>
        LET line == lines[result.self]
            n    == Len(sink)
            tabs   == {k \in 1..n : sink[k].kind = "tab"}
            breaks == {k \in 1..n : sink[k].kind = "break"}
        IN  /\ tabs = IF line.tab_stop # 0 THEN {1} ELSE {}
            /\ breaks = IF line.line_break # 0 THEN {n} ELSE {}
            /\ \A k \in (1..n) \ (tabs \cup breaks) :
                  sink[k].span \in 1..Len(line.spans)
            /\ \A j, k \in (1..n) \ (tabs \cup breaks) :
                  j < k => sink[j].span <= sink[k].span
            /\ \A i \in 1..Len(line.spans) :
                  ~IsSplit(line.spans[i]) =>
                      /\ Len(RunsOf(i)) = 1
                      /\ RunsOf(i)[1].kind = line.spans[i].kind

\* C6 witness: tab, two runs of a split span, a run of a second span, break.
C6_TabSpansBreak ==
    /\ result.op = "make_docx"
    /\ Len(sink) = 5
    /\ sink[1].kind = "tab"
    /\ sink[2].span = 1 /\ sink[3].span = 1 /\ sink[4].span = 2
    /\ sink[5].kind = "break"

\* C7: same_source_parent is false when the pid of self is unset, the
\* other's unset as well or not; else it is true iff the two are equal.
C7_SameSourceParent ==
    result.op = "same_source_parent" =>
        LET a == lines[result.self].pid
            b == lines[result.other].pid
        IN  /\ a = None => result.ret = "False"
            /\ a # None => (result.ret = "True" <=> a = b)

\* C7 witness: two Lines without pid have been compared.
C7_BothUnsetCompared ==
    /\ result.op = "same_source_parent"
    /\ result.self # result.other
    /\ lines[result.self].pid = None
    /\ lines[result.other].pid = None
    /\ result.ret = "False"

\* C8 as stated: a value that int() rejects makes the setter raise and
\* leaves the pid as it was, set before or not.
C8_RejectsAlways ==
    [][ (result'.op = "pid.setter" /\ ~Coercible(result'.arg)) =>
            /\ result'.status \in Errors
            /\ lines'[result'.self].pid = lines[result'.self].pid ]_vars

\* C8 amended: while the pid is unset, a value that int() rejects makes the
\* setter raise and the pid stays unset; once the pid is set, every
\* assignment, of a value int() accepts or not, raises nothing and changes
\* nothing.
C8_RejectsWhileUnset ==
    [][ result'.op = "pid.setter" =>
            LET old == lines[result'.self].pid
                new == lines'[result'.self].pid
            IN  /\ (old = None /\ ~Coercible(result'.arg)) =>
                      (result'.status \in Errors /\ new = None)
                /\ old # None => (result'.status = "ok" /\ new = old) ]_vars

\* C8 witness: the pid is set and a setter call with "x" has returned
\* without an exception.
C8_BadValueIgnoredOnceSet ==
    /\ result.op = "pid.setter"
    /\ ~Coercible(result.arg)
    /\ result.status = "ok"
    /\ lines[result.self].pid # None

C10_NoSharedState ==
    (/\ result.op = "intersects"
     /\ result.status = "ok"
     /\ lines[result.self].spans # <<>>) =>
        LET src == lines[result.self]
            new == lines[result.new]
        IN  /\ new.dir # src.dir
            /\ \A j \in 1..Len(new.spans), k \in 1..Len(src.spans) :
                  new.spans[j].owner # src.spans[k].owner

====
